---- MODULE Spec2Model ----
(***************************************************************************)
(* Model of biryani/datetimeconv.py (Python 2): the date and time          *)
(* converters.  Every converter takes a value and returns a pair           *)
(* (value, error); here a result is a record [value, error, raised], where *)
(* raised names the Python exception that escapes the converter, if any.   *)
(*                                                                         *)
(* Values are tagged records: None, date, datetime, unicode (a sequence of *)
(* one-character strings), int and float.  Python integers are unbounded,  *)
(* so a millisecond count n is kept in mixed radix as days * 86400000 + ms *)
(* (+ frac / 1000 for a float), and an instant in seconds as days * 86400  *)
(* + secs (+ us / 10^6).                                                   *)
(***************************************************************************)
EXTENDS Integers, Sequences, FiniteSets, TLC

\* Longest chain of converters applied to one input.
MaxSteps == 2
\* Largest number of spaces written between the time and the UTC offset.
MaxSpaces == 2

NoError == "None"
NoRaise == "None"
DateFormatError == "Value must be a date in ISO 8601 format"
DateTimeFormatError == "Value must be a date-time in ISO 8601 format"
TimestampError == "Value must be a timestamp"

MsPerDay == 86400 * 1000

(***************************************************************************)
(* Values                                                                  *)
(***************************************************************************)
None == [kind |-> "None"]

\* tzinfo = None, and a fixed-offset tzinfo (offset in minutes; pytz.utc is 0)
NoTz == [set |-> FALSE, off |-> 0]
FixedTz(m) == [set |-> TRUE, off |-> m]

date(y, m, d) == [kind |-> "date", year |-> y, month |-> m, day |-> d]

datetime(y, m, d, H, M, S, us, tz) ==
    [kind |-> "datetime", year |-> y, month |-> m, day |-> d,
     hour |-> H, minute |-> M, second |-> S, microsecond |-> us, tzinfo |-> tz]

unicode(s) == [kind |-> "unicode", s |-> s]

\* the number days * 86400000 + ms + frac / 1000, 0 <= ms < 86400000, 0 <= frac < 1000
number(k, days, ms, frac) == [kind |-> k, days |-> days, ms |-> ms, frac |-> frac]

\* the int n, for an n small enough to be written down directly
int(n) == number("int", n \div MsPerDay, n % MsPerDay, 0)

IsDate(v) == v.kind \in {"date", "datetime"}
IsNumber(v) == v.kind \in {"int", "float"}

Ok(v) == [value |-> v, error |-> NoError, raised |-> NoRaise]
Err(v, msg) == [value |-> v, error |-> msg, raised |-> NoRaise]
Raise(v, exc) == [value |-> v, error |-> NoError, raised |-> exc]

(***************************************************************************)
(* Calendar arithmetic of the standard library (proleptic Gregorian)       *)
(***************************************************************************)
IsLeap(y) == (y % 4 = 0) /\ ((y % 100 # 0) \/ (y % 400 = 0))

DaysInMonth(y, m) ==
    IF m = 2 THEN (IF IsLeap(y) THEN 29 ELSE 28)
    ELSE IF m \in {4, 6, 9, 11} THEN 30 ELSE 31

\* days from 1970-01-01 to the civil day y-m-d
DaysFromCivil(y, m, d) ==
    LET yy  == IF m <= 2 THEN y - 1 ELSE y
        era == yy \div 400
        yoe == yy - era * 400
        mp  == IF m > 2 THEN m - 3 ELSE m + 9
        doy == (153 * mp + 2) \div 5 + d - 1
        doe == yoe * 365 + yoe \div 4 - yoe \div 100 + doy
    IN  era * 146097 + doe - 719468

\* the civil day that lies z days after 1970-01-01
CivilFromDays(z) ==
    LET zz  == z + 719468
        era == zz \div 146097
        doe == zz - era * 146097
        yoe == (doe - doe \div 1460 + doe \div 36524 - doe \div 146096) \div 365
        doy == doe - (365 * yoe + yoe \div 4 - yoe \div 100)
        mp  == (5 * doy + 2) \div 153
        d   == doy - (153 * mp + 2) \div 5 + 1
        m   == IF mp < 10 THEN mp + 3 ELSE mp - 9
        y   == yoe + era * 400 + (IF m <= 2 THEN 1 ELSE 0)
    IN  [year |-> y, month |-> m, day |-> d]

\* an instant: days * 86400 + secs + us / 10^6 seconds after the epoch
Instant(days, secs, us) == [days |-> days, secs |-> secs, us |-> us]

\* t shifted by n seconds (|n| at most a few days), normalised
AddSeconds(t, n) ==
    Instant(t.days + (t.secs + n) \div 86400, (t.secs + n) % 86400, t.us)

\* value.timetuple(): the calendar fields, a bare date being midnight
timetuple(v) ==
    IF v.kind = "datetime"
    THEN [year |-> v.year, month |-> v.month, day |-> v.day,
          hour |-> v.hour, minute |-> v.minute, second |-> v.second]
    ELSE [year |-> v.year, month |-> v.month, day |-> v.day,
          hour |-> 0, minute |-> 0, second |-> 0]

\* calendar.timegm(tuple): the fields read as UTC, in whole seconds
timegm(tt) ==
    Instant(DaysFromCivil(tt.year, tt.month, tt.day),
            tt.hour * 3600 + tt.minute * 60 + tt.second, 0)

\* the naive datetime whose fields, read as UTC, denote the instant t
FromInstant(t) ==
    LET c == CivilFromDays(t.days)
    IN  datetime(c.year, c.month, c.day, t.secs \div 3600, (t.secs % 3600) \div 60,
                 t.secs % 60, t.us, NoTz)

\* time.localtime / datetime.fromtimestamp in a zone lying `local` minutes east of UTC;
\* datetime supports the years 1..9999 only and signals ValueError outside
InRange(t) == t.days >= DaysFromCivil(1, 1, 1) /\ t.days <= DaysFromCivil(9999, 12, 31)

datetime_fromtimestamp(t, local) == FromInstant(AddSeconds(t, local * 60))

date_fromtimestamp(t, local) ==
    LET c == CivilFromDays(AddSeconds(t, local * 60).days)
    IN  date(c.year, c.month, c.day)

(***************************************************************************)
(* Strings: formatting, trimming, the offset normalisation and the parser  *)
(***************************************************************************)
Digits == <<"0", "1", "2", "3", "4", "5", "6", "7", "8", "9">>

IsDigit(c) == \E i \in 1..10 : Digits[i] = c
DigitValue(c) == (CHOOSE i \in 1..10 : Digits[i] = c) - 1

Pad2(n) == <<Digits[((n \div 10) % 10) + 1], Digits[(n % 10) + 1]>>
Pad4(n) == Pad2(n \div 100) \o Pad2(n % 100)

\* value.strftime('%Y-%m-%d')
strftime_date(v) == Pad4(v.year) \o <<"-">> \o Pad2(v.month) \o <<"-">> \o Pad2(v.day)

\* value.strftime('%Y-%m-%d %H:%M:%S'), a bare date being midnight
strftime_datetime(v) ==
    LET tt == timetuple(v)
    IN  strftime_date(v) \o <<" ">> \o Pad2(tt.hour) \o <<":">> \o Pad2(tt.minute)
                         \o <<":">> \o Pad2(tt.second)

\* Python 2: the strftime() methods of date and datetime require year >= 1900
\* and raise ValueError below it
strftime_accepts(v) == v.year >= 1900

RECURSIVE lstrip(_)
lstrip(s) == IF s # <<>> /\ Head(s) = " " THEN lstrip(Tail(s)) ELSE s

RECURSIVE rstrip(_)
rstrip(s) == IF s # <<>> /\ s[Len(s)] = " " THEN rstrip(SubSeq(s, 1, Len(s) - 1)) ELSE s

strip(s) == rstrip(lstrip(s))

\* u' +' in value  (c is "+" or "-")
HasSpaceBefore(s, c) == \E i \in 1..(Len(s) - 1) : s[i] = " " /\ s[i + 1] = c

\* value.replace(u' +', '+'): every non-overlapping occurrence, left to right
RECURSIVE replace(_, _)
replace(s, c) ==
    IF Len(s) < 2 THEN s
    ELSE IF s[1] = " " /\ s[2] = c THEN <<c>> \o replace(SubSeq(s, 3, Len(s)), c)
    ELSE <<s[1]>> \o replace(Tail(s), c)

\* a single replace pass in place of the loop
RemoveSpaceBefore_OnePass(s, c) == replace(s, c)

\* while u' +' in value: value = value.replace(u' +', '+')
RECURSIVE RemoveSpaceBefore(_, _)
RemoveSpaceBefore(s, c) ==
    IF HasSpaceBefore(s, c) THEN RemoveSpaceBefore(replace(s, c), c) ELSE s

\* the two loops in sequence
Normalize(s) == RemoveSpaceBefore(RemoveSpaceBefore(s, "+"), "-")

(***************************************************************************)
(* mx.DateTime.ISO.ParseDateTimeUTC on the layouts the module documents:   *)
(*   YYYY[-]MM[-]DD [ (' '|'T') HH[:]MM[[:]SS] [ (+|-)HH[[:]MM] ] ]        *)
(* The result is the mx.DateTime whose fields are the written ones minus   *)
(* the offset; ok is FALSE where the library raises ValueError (a layout   *)
(* it does not match, or a field out of range).                            *)
(***************************************************************************)
\* s[m:n], the characters of s at the positions m..n that exist
Slice(s, m, n) ==
    LET lo == IF m < 1 THEN 1 ELSE m
        hi == IF n > Len(s) THEN Len(s) ELSE n
    IN  [i \in 1..(hi - lo + 1) |-> s[i + lo - 1]]

\* the first position from i on of a character of cs in s, Len(s) + 1 if none
RECURSIVE Find(_, _, _)
Find(s, cs, i) == IF i > Len(s) \/ s[i] \in cs THEN i ELSE Find(s, cs, i + 1)

\* the values of the two-digit groups of p, which the character c may separate;
\* a group of -1 where p is not made of such groups
RECURSIVE Groups(_, _)
Groups(p, c) ==
    IF p = <<>> THEN <<>>
    ELSE IF Len(p) >= 2 /\ IsDigit(p[1]) /\ IsDigit(p[2])
    THEN <<10 * DigitValue(p[1]) + DigitValue(p[2])>>
             \o Groups(Slice(p, IF Len(p) >= 3 /\ p[3] = c THEN 4 ELSE 3, Len(p)), c)
    ELSE <<-1>>

IsFields(g, counts) == Len(g) \in counts /\ \A i \in 1..Len(g) : g[i] >= 0

\* the date, the time of day and the offset as written in s
DatePart(s) == Slice(s, 1, Find(s, {" ", "T"}, 1) - 1)
ClockPart(s) ==
    Slice(s, Find(s, {" ", "T"}, 1) + 1, Find(s, {"+", "-"}, Find(s, {" ", "T"}, 1) + 1) - 1)
ZonePart(s) == Slice(s, Find(s, {"+", "-"}, Find(s, {" ", "T"}, 1) + 1), Len(s))

YearFields(s) == Groups(Slice(DatePart(s), 1, 4), "")
MonthDayFields(s) ==
    Groups(Slice(DatePart(s), IF Len(DatePart(s)) >= 5 /\ DatePart(s)[5] = "-" THEN 6 ELSE 5,
                  Len(DatePart(s))), "-")
ClockFields(s) == Groups(ClockPart(s), ":")
ZoneFields(s) == Groups(Tail(ZonePart(s)), ":")

HasTime(s) == Find(s, {" ", "T"}, 1) <= Len(s)
HasZone(s) == HasTime(s) /\ ZonePart(s) # <<>>

Matches(s) ==
    /\ IsFields(YearFields(s), {2})
    /\ IsFields(MonthDayFields(s), {2})
    /\ HasTime(s) => IsFields(ClockFields(s), {2, 3})
    /\ HasZone(s) => IsFields(ZoneFields(s), {1, 2})

\* the written offset in minutes
ZoneOffset(s) ==
    IF ~HasZone(s) THEN 0
    ELSE (IF ZonePart(s)[1] = "-" THEN -1 ELSE 1)
         * (60 * ZoneFields(s)[1] + (IF Len(ZoneFields(s)) = 2 THEN ZoneFields(s)[2] ELSE 0))

\* the written calendar fields
WrittenFields(s) ==
    [year   |-> 100 * YearFields(s)[1] + YearFields(s)[2],
     month  |-> MonthDayFields(s)[1],
     day    |-> MonthDayFields(s)[2],
     hour   |-> IF HasTime(s) THEN ClockFields(s)[1] ELSE 0,
     minute |-> IF HasTime(s) THEN ClockFields(s)[2] ELSE 0,
     second |-> IF HasTime(s) /\ Len(ClockFields(s)) = 3 THEN ClockFields(s)[3] ELSE 0]

FieldsInRange(f) ==
    /\ f.month \in 1..12
    /\ f.day \in 1..DaysInMonth(f.year, f.month)
    /\ f.hour <= 23 /\ f.minute <= 59 /\ f.second <= 59

ParseDateTimeUTC(str) ==
    IF Matches(strip(str)) /\ FieldsInRange(WrittenFields(strip(str)))
    THEN [ok |-> TRUE,
          t  |-> AddSeconds(timegm(WrittenFields(strip(str))), -(ZoneOffset(strip(str)) * 60))]
    ELSE [ok |-> FALSE, t |-> Instant(0, 0, 0)]

\* float(mx.DateTime): the ticks of the fields read as local time (mktime)
mx_float(t, local) == AddSeconds(t, -(local * 60))

(***************************************************************************)
(* Level-1 converters                                                      *)
(***************************************************************************)
\* clean_iso8601_to_date without its test for None
clean_iso8601_to_date_NoNoneTest(v, local) ==
    IF v.kind # "unicode" THEN Raise(v, "TypeError")
    ELSE LET s == Normalize(v.s)
             p == ParseDateTimeUTC(s)
         IN  IF p.ok /\ InRange(p.t)
             THEN Ok(date_fromtimestamp(mx_float(p.t, local), local))
             ELSE Err(unicode(s), DateFormatError)

\* clean_iso8601_to_date taking the parsed fields as UTC ticks, not as local ticks
clean_iso8601_to_date_UtcTicks(v, local) ==
    IF v.kind = "None" THEN Ok(v)
    ELSE IF v.kind # "unicode" THEN Raise(v, "TypeError")
    ELSE LET s == Normalize(v.s)
             p == ParseDateTimeUTC(s)
         IN  IF p.ok /\ InRange(p.t)
             THEN Ok(date_fromtimestamp(p.t, local))
             ELSE Err(unicode(s), DateFormatError)

clean_iso8601_to_date(v, local) ==
    IF v.kind = "None" THEN Ok(v)
    ELSE IF v.kind # "unicode" THEN Raise(v, "TypeError")
    ELSE LET s == Normalize(v.s)
             p == ParseDateTimeUTC(s)
         IN  IF p.ok /\ InRange(p.t)
             THEN Ok(date_fromtimestamp(mx_float(p.t, local), local))
             ELSE Err(unicode(s), DateFormatError)

clean_iso8601_to_datetime(v, local) ==
    IF v.kind = "None" THEN Ok(v)
    ELSE IF v.kind # "unicode" THEN Raise(v, "TypeError")
    ELSE LET s == Normalize(v.s)
             p == ParseDateTimeUTC(s)
         IN  IF p.ok /\ InRange(p.t)
             THEN Ok(datetime_fromtimestamp(mx_float(p.t, local), local))
             ELSE Err(unicode(s), DateTimeFormatError)

date_to_datetime(v) ==
    IF v.kind = "None" THEN Ok(v)
    ELSE IF ~IsDate(v) THEN Raise(v, "AttributeError")
    ELSE Ok(datetime(v.year, v.month, v.day, 0, 0, 0, 0, NoTz))

date_to_iso8601(v) ==
    IF v.kind = "None" THEN Ok(v)
    ELSE IF ~IsDate(v) THEN Raise(v, "AttributeError")
    ELSE IF ~strftime_accepts(v) THEN Raise(v, "ValueError")
    ELSE Ok(unicode(strftime_date(v)))

date_to_timestamp(v) ==
    IF v.kind = "None" THEN Ok(v)
    ELSE IF ~IsDate(v) THEN Raise(v, "AttributeError")
    ELSE LET t == timegm(timetuple(v))
         IN  Ok(number("int", t.days, t.secs * 1000, 0))

datetime_to_date(v) ==
    IF v.kind = "None" THEN Ok(v)
    ELSE IF v.kind # "datetime" THEN Raise(v, "AttributeError")
    ELSE Ok(date(v.year, v.month, v.day))

datetime_to_iso8601(v) ==
    IF v.kind = "None" THEN Ok(v)
    ELSE IF ~IsDate(v) THEN Raise(v, "AttributeError")
    ELSE IF ~strftime_accepts(v) THEN Raise(v, "ValueError")
    ELSE Ok(unicode(strftime_datetime(v)))

\* value -= utcoffset: the same tzinfo and microsecond, the fields moved back
SubtractOffset(v, minutes) ==
    LET w == FromInstant(AddSeconds(timegm(timetuple(v)), -(minutes * 60)))
    IN  [w EXCEPT !.microsecond = v.microsecond, !.tzinfo = v.tzinfo]

\* datetime_to_timestamp without the delegation of non-datetime values
datetime_to_timestamp_NoDelegation(v) ==
    IF v.kind # "datetime" THEN Raise(v, "AttributeError")
    ELSE LET w == IF v.tzinfo.set THEN SubtractOffset(v, v.tzinfo.off) ELSE v
             t == timegm(timetuple(w))
         IN  Ok(number("int", t.days, t.secs * 1000 + w.microsecond \div 1000, 0))

\* datetime_to_timestamp without the subtraction of the UTC offset
datetime_to_timestamp_NoOffset(v) ==
    IF v.kind # "datetime" THEN date_to_timestamp(v)
    ELSE LET t == timegm(timetuple(v))
         IN  Ok(number("int", t.days, t.secs * 1000 + v.microsecond \div 1000, 0))

datetime_to_timestamp(v) ==
    IF v.kind # "datetime" THEN date_to_timestamp(v)
    ELSE LET w == IF v.tzinfo.set THEN SubtractOffset(v, v.tzinfo.off) ELSE v
             t == timegm(timetuple(w))
         IN  Ok(number("int", t.days, t.secs * 1000 + w.microsecond \div 1000, 0))

\* a replace that cannot clear the tzinfo
replace_tzinfo_KeepsTag(v, tz) ==
    IF v.kind = "datetime" THEN Ok(IF tz.set THEN [v EXCEPT !.tzinfo = tz] ELSE v)
    ELSE IF v.kind \in {"date", "unicode"} THEN Raise(v, "TypeError")
    ELSE Raise(v, "AttributeError")

\* lambda value: value.replace(tzinfo = tzinfo)
replace_tzinfo(v, tz) ==
    IF v.kind = "datetime" THEN Ok([v EXCEPT !.tzinfo = tz])
    ELSE IF v.kind \in {"date", "unicode"} THEN Raise(v, "TypeError")
    ELSE Raise(v, "AttributeError")

\* value / 1000 in Python 2, as an instant in seconds: floor division when
\* value is an int, true division when it is a float
div1000(v) ==
    IF v.kind = "int" THEN Instant(v.days, v.ms \div 1000, 0)
    ELSE Instant(v.days, v.ms \div 1000, (v.ms % 1000) * 1000 + v.frac)

timestamp_to_date(v, local) ==
    IF v.kind = "None" THEN Ok(v)
    ELSE IF ~IsNumber(v) THEN Raise(v, "TypeError")
    ELSE LET t == div1000(v)
         IN  IF InRange(AddSeconds(t, local * 60))
             THEN Ok(date_fromtimestamp(t, local))
             ELSE Err(v, TimestampError)

timestamp_to_datetime(v, local) ==
    IF v.kind = "None" THEN Ok(v)
    ELSE IF ~IsNumber(v) THEN Raise(v, "TypeError")
    ELSE LET t == div1000(v)
         IN  IF InRange(AddSeconds(t, local * 60))
             THEN Ok(datetime_fromtimestamp(t, local))
             ELSE Err(v, TimestampError)

(***************************************************************************)
(* The combinators of biryani.baseconv                                     *)
(***************************************************************************)
\* function(f): a converter that maps None to (None, None) and any other value to (f(value), None)
function(v, r) == IF v.kind = "None" THEN Ok(v) ELSE r

set_datetime_tzinfo(v, tz) == function(v, replace_tzinfo(v, tz))

\* cleanup_line: strip, then None in place of the empty string
cleanup_line(v) ==
    IF v.kind = "None" THEN Ok(v)
    ELSE IF v.kind # "unicode" THEN Raise(v, "AttributeError")
    ELSE IF strip(v.s) = <<>> THEN Ok(None) ELSE Ok(unicode(strip(v.s)))

\* pipe(stage1, stage2), given the result r1 of stage1 and the result r2 of stage2 on r1.value
pipe(r1, r2) == IF r1.raised # NoRaise \/ r1.error # NoError THEN r1 ELSE r2

(***************************************************************************)
(* Level-2 converters                                                      *)
(***************************************************************************)
iso8601_to_date(v, local) ==
    pipe(cleanup_line(v), clean_iso8601_to_date(cleanup_line(v).value, local))

iso8601_to_datetime(v, local) ==
    pipe(cleanup_line(v), clean_iso8601_to_datetime(cleanup_line(v).value, local))

(***************************************************************************)
(* Inputs                                                                  *)
(***************************************************************************)
Dates == {date(1899, 12, 31), date(1970, 1, 1), date(2012, 2, 29), date(2012, 3, 4)}

\* times of day <<hour, minute, second>>
Times == {<<0, 30, 0>>, <<5, 6, 7>>, <<23, 30, 0>>}

Micros == {0, 789123}

\* UTC offsets in minutes: +01:00 and -02:00
Offsets == {60, -120}

\* tzinfo arguments: None, pytz.utc and the fixed offsets
Tzinfos == {NoTz, FixedTz(0)} \cup {FixedTz(m) : m \in Offsets}

\* the local zone of the process, in minutes east of UTC: zones of fixed offset
\* (a zone with daylight-saving transitions has local times that do not exist)
LocalZones == {-300, 0, 60}

DateTimes ==
    {datetime(d.year, d.month, d.day, t[1], t[2], t[3], us, tz) :
        d \in Dates \ {date(2012, 2, 29)}, t \in Times, us \in Micros,
        tz \in {NoTz} \cup {FixedTz(m) : m \in Offsets}}
    \cup {datetime(2012, 3, 4, 2, 6, 7, 0, FixedTz(-120))}

Spaces(k) == [i \in 1..k |-> " "]

OffsetText(off) ==
    LET a == IF off < 0 THEN -off ELSE off
    IN  <<IF off < 0 THEN "-" ELSE "+">> \o Pad2(a \div 60) \o <<":">> \o Pad2(a % 60)

TimeText(t) == Pad2(t[1]) \o <<":">> \o Pad2(t[2]) \o <<":">> \o Pad2(t[3])

\* a written date-time: the day d, the separator sep, the time t, then k spaces
\* and the offset off (no offset when off = 0)
Layouts ==
    [d : {date(1970, 1, 1), date(2012, 3, 4)}, sep : {" ", "T"}, t : Times,
     k : 0..MaxSpaces, off : Offsets \cup {0}]

LayoutText(l) ==
    strftime_date(l.d) \o <<l.sep>> \o TimeText(l.t)
        \o (IF l.off = 0 THEN <<>> ELSE Spaces(l.k) \o OffsetText(l.off))

OffsetLayouts == {l \in Layouts : l.off # 0 /\ l.sep = " "}

WrittenLayouts ==
    OffsetLayouts \cup {l \in Layouts : l.off = 0 /\ l.k = 0 /\ l.t = <<5, 6, 7>>}

Blank == {<<>>, Spaces(1), Spaces(3)}

Texts ==
    {LayoutText(l) : l \in WrittenLayouts}
    \cup {strftime_date(d) : d \in Dates}
    \cup Blank
    \cup {<<"2", "0", "1", "2", "0", "3", "0", "4">>,
          <<"2", "0", "1", "2", "0", "3", "0", "4", " ", "0", "5", ":", "0", "6", ":", "0", "7">>,
          <<" ", " ", "2", "0", "1", "2", "-", "0", "3", "-", "0", "4", " ">>,
          <<"2", "0", "1", "2", "-", "1", "3", "-", "4", "5">>,
          <<"0", "0", "0", "0", "-", "0", "1", "-", "0", "1">>,
          <<"n", "o", "w">>,
          <<"t", "o", "d", "a", "y">>,
          <<"n", "o", "w", " ", "+", "1">>,
          <<"n", "o", "w", " ", " ", "-", "1">>}

Numbers ==
    {int(0), int(1500), int(-1), int(123456789),
     number("int", 15403, 18367500, 0),
     number("int", 4000000, 0, 0),
     number("float", 0, 1500, 500),
     number("float", 1, 37056789, 123)}

Inputs == {None} \cup Dates \cup DateTimes \cup {unicode(s) : s \in Texts} \cup Numbers

(***************************************************************************)
(* The state machine: an input value, then a chain of converter calls      *)
(***************************************************************************)
VARIABLES value, error, raised, orig, applied, localtz
vars == <<value, error, raised, orig, applied, localtz>>

Init ==
    /\ orig \in Inputs
    /\ value = orig
    /\ error = NoError
    /\ raised = NoRaise
    /\ applied = <<>>
    /\ localtz \in LocalZones

\* one call: converter `op` (with its tzinfo argument, if any) returns r
Call(op, tz, r) ==
    /\ Len(applied) < MaxSteps
    /\ error = NoError
    /\ raised = NoRaise
    /\ value' = r.value
    /\ error' = r.error
    /\ raised' = r.raised
    /\ applied' = Append(applied, [op |-> op, tzinfo |-> tz])
    /\ UNCHANGED <<orig, localtz>>

CleanIso8601ToDate == Call("clean_iso8601_to_date", NoTz, clean_iso8601_to_date(value, localtz))
CleanIso8601ToDatetime ==
    Call("clean_iso8601_to_datetime", NoTz, clean_iso8601_to_datetime(value, localtz))
DateToDatetime == Call("date_to_datetime", NoTz, date_to_datetime(value))
DateToIso8601 == Call("date_to_iso8601", NoTz, date_to_iso8601(value))
DateToTimestamp == Call("date_to_timestamp", NoTz, date_to_timestamp(value))
DatetimeToDate == Call("datetime_to_date", NoTz, datetime_to_date(value))
DatetimeToIso8601 == Call("datetime_to_iso8601", NoTz, datetime_to_iso8601(value))
DatetimeToTimestamp == Call("datetime_to_timestamp", NoTz, datetime_to_timestamp(value))
SetDatetimeTzinfo ==
    \E tz \in Tzinfos : Call("set_datetime_tzinfo", tz, set_datetime_tzinfo(value, tz))
TimestampToDate == Call("timestamp_to_date", NoTz, timestamp_to_date(value, localtz))
TimestampToDatetime == Call("timestamp_to_datetime", NoTz, timestamp_to_datetime(value, localtz))
Iso8601ToDate == Call("iso8601_to_date", NoTz, iso8601_to_date(value, localtz))
Iso8601ToDatetime == Call("iso8601_to_datetime", NoTz, iso8601_to_datetime(value, localtz))

Next ==
    \/ CleanIso8601ToDate
    \/ CleanIso8601ToDatetime
    \/ DateToDatetime
    \/ DateToIso8601
    \/ DateToTimestamp
    \/ DatetimeToDate
    \/ DatetimeToIso8601
    \/ DatetimeToTimestamp
    \/ SetDatetimeTzinfo
    \/ TimestampToDate
    \/ TimestampToDatetime
    \/ Iso8601ToDate
    \/ Iso8601ToDatetime

Spec == Init /\ [][Next]_vars

\* the chain of converter names applied so far
Ops == [i \in 1..Len(applied) |-> applied[i].op]

(***************************************************************************)
(* Properties                                                              *)
(***************************************************************************)
AllSpaces(str) == \A i \in 1..Len(str) : str[i] = " "

\* what the converters hand to the parser, and whether the conversion of it succeeds
Accepted(str) == ParseDateTimeUTC(Normalize(str)).ok /\ InRange(ParseDateTimeUTC(Normalize(str)).t)

\* the written day and time of a layout moved back by its offset, as a naive datetime
WrittenMinusOffset(l) ==
    LET days == DaysFromCivil(l.d.year, l.d.month, l.d.day)
        secs == l.t[1] * 3600 + l.t[2] * 60 + l.t[3] - l.off * 60
        c    == CivilFromDays(days + secs \div 86400)
        r    == secs % 86400
    IN  datetime(c.year, c.month, c.day, r \div 3600, (r % 3600) \div 60, r % 60, 0, NoTz)

DayOf(v) == date(v.year, v.month, v.day)

\* C1: every converter, applied to None, returns (None, no error) and raises
\* nothing; so does any chain of converters started on None.
C1_NoneMapsToNone ==
    (orig = None /\ applied # <<>>) =>
        (value = None /\ error = NoError /\ raised = NoRaise)

C1_Witness ==
    /\ orig = None
    /\ Ops = <<"datetime_to_timestamp">>
    /\ value = None /\ error = NoError /\ raised = NoRaise

\* C2: when the conversion of a string fails, clean_iso8601_to_date and
\* clean_iso8601_to_datetime raise nothing and return the original input
\* string, character for character, with the format message of the converter.
C2_FailureReturnsOriginal ==
    (orig.kind = "unicode" /\ ~Accepted(orig.s) /\ Len(applied) = 1
        /\ Ops[1] \in {"clean_iso8601_to_date", "clean_iso8601_to_datetime"}) =>
        /\ raised = NoRaise
        /\ value = orig
        /\ error = (IF Ops[1] = "clean_iso8601_to_date"
                    THEN DateFormatError ELSE DateTimeFormatError)

\* C3: for a date-time written with a UTC offset, clean_iso8601_to_datetime
\* returns, with no error, the naive datetime of the written time minus the
\* offset, however many spaces separate the offset from the time; the
\* normalised string has no space left before a '+' or a '-' sign of an offset.
C3_OffsetSpacing ==
    (orig.kind = "unicode" /\ Ops = <<"clean_iso8601_to_datetime">>) =>
      \A l \in OffsetLayouts :
        orig = unicode(LayoutText(l)) =>
            /\ raised = NoRaise /\ error = NoError
            /\ value = WrittenMinusOffset(l)
            /\ value = clean_iso8601_to_datetime(
                           unicode(LayoutText([l EXCEPT !.k = 0])), localtz).value
            /\ ~HasSpaceBefore(Normalize(orig.s), "+")
            /\ ~HasSpaceBefore(Normalize(orig.s), "-")
            /\ (l.d = date(2012, 3, 4) /\ l.t = <<5, 6, 7>> /\ l.off = 60)
                   => value = datetime(2012, 3, 4, 4, 6, 7, 0, NoTz)
            /\ (l.d = date(2012, 3, 4) /\ l.t = <<5, 6, 7>> /\ l.off = -120)
                   => value = datetime(2012, 3, 4, 7, 6, 7, 0, NoTz)

C3_Witness ==
    /\ orig = unicode(LayoutText([d |-> date(2012, 3, 4), sep |-> " ", t |-> <<5, 6, 7>>,
                                  k |-> 2, off |-> 60]))
    /\ Ops = <<"clean_iso8601_to_datetime">>
    /\ value = datetime(2012, 3, 4, 4, 6, 7, 0, NoTz)
    /\ error = NoError

\* C4: for any date d, date_to_iso8601 returns the string YYYY-MM-DD without
\* raising, and iso8601_to_date applied to that string returns (d, no error).
C4_DateRoundTrip ==
    /\ (orig.kind = "date" /\ Ops = <<"date_to_iso8601">>) =>
           /\ raised = NoRaise /\ error = NoError
           /\ value = unicode(Pad4(orig.year) \o <<"-">> \o Pad2(orig.month)
                                 \o <<"-">> \o Pad2(orig.day))
    /\ (orig.kind = "date" /\ Ops = <<"date_to_iso8601", "iso8601_to_date">>) =>
           (raised = NoRaise /\ error = NoError /\ value = orig)

\* C5: for any naive datetime t, datetime_to_iso8601 returns a string without
\* raising, and iso8601_to_datetime applied to it returns, with no error, the
\* naive datetime equal to t down to the second, its microsecond being zero.
C5_DatetimeRoundTrip ==
    /\ (orig.kind = "datetime" /\ ~orig.tzinfo.set /\ Ops = <<"datetime_to_iso8601">>) =>
           (raised = NoRaise /\ error = NoError /\ value.kind = "unicode")
    /\ (orig.kind = "datetime" /\ ~orig.tzinfo.set
            /\ Ops = <<"datetime_to_iso8601", "iso8601_to_datetime">>) =>
           (raised = NoRaise /\ error = NoError /\ value = [orig EXCEPT !.microsecond = 0])

\* C6: on an empty or all-whitespace string the pipelines iso8601_to_date and
\* iso8601_to_datetime return (None, no error), the trim stage yielding None
\* without error; the parse stage called directly on the empty string returns
\* the empty string with the format error.
C6_BlankYieldsNone ==
    (orig.kind = "unicode" /\ AllSpaces(orig.s) /\ Len(applied) = 1) =>
        /\ (Ops[1] \in {"iso8601_to_date", "iso8601_to_datetime"}) =>
               /\ value = None /\ error = NoError /\ raised = NoRaise
               /\ cleanup_line(orig) = Ok(None)
        /\ (Ops[1] = "clean_iso8601_to_date" /\ orig.s = <<>>) =>
               (value = orig /\ error = DateFormatError /\ raised = NoRaise)
        /\ (Ops[1] = "clean_iso8601_to_datetime" /\ orig.s = <<>>) =>
               (value = orig /\ error = DateTimeFormatError /\ raised = NoRaise)

C6_Witness ==
    /\ orig = unicode(Spaces(3))
    /\ Ops = <<"iso8601_to_date">>
    /\ value = None /\ error = NoError /\ raised = NoRaise

\* the int 1000 * E + floor(microsecond / 1000) for the datetime v, E being the
\* epoch seconds of its fields minus its UTC offset
ExpectedTimestamp(v) ==
    LET days == DaysFromCivil(v.year, v.month, v.day)
        secs == v.hour * 3600 + v.minute * 60 + v.second
                    - (IF v.tzinfo.set THEN v.tzinfo.off * 60 ELSE 0)
        ms   == 1000 * secs + v.microsecond \div 1000
    IN  number("int", days + ms \div MsPerDay, ms % MsPerDay, 0)

\* C7: datetime_to_timestamp returns, with no error, the integer
\* 1000 * E + floor(microsecond / 1000), E being the epoch seconds of the
\* fields read as UTC after the UTC offset is subtracted; datetimes that denote
\* the same instant get the same timestamp; a bare date gets the timestamp of
\* date_to_timestamp, midnight UTC of that day.
C7_DatetimeToTimestamp ==
    (Ops = <<"datetime_to_timestamp">> /\ IsDate(orig)) =>
        /\ raised = NoRaise /\ error = NoError
        /\ orig.kind = "datetime" =>
               /\ value = ExpectedTimestamp(orig)
               /\ \A w \in DateTimes :
                      ExpectedTimestamp([w EXCEPT !.microsecond = orig.microsecond])
                          = ExpectedTimestamp(orig)
                      => datetime_to_timestamp([w EXCEPT !.microsecond = orig.microsecond]).value
                             = value
        /\ orig.kind = "date" =>
               /\ value = date_to_timestamp(orig).value
               /\ value = number("int", DaysFromCivil(orig.year, orig.month, orig.day), 0, 0)
        /\ orig = datetime(2012, 3, 4, 5, 6, 7, 0, NoTz) => value = number("int", 15403, 18367000, 0)

C7_Witness ==
    /\ orig = datetime(1970, 1, 1, 0, 30, 0, 789123, FixedTz(60))
    /\ Ops = <<"datetime_to_timestamp">>
    /\ value = number("int", -1, 84600789, 0)
    /\ error = NoError

\* C8: timestamp_to_datetime returns a naive datetime whose sub-second part is
\* the remainder of the timestamp modulo 1000 milliseconds, for an int as for a
\* float; the integer produced by datetime_to_timestamp comes back with its
\* milliseconds.
C8_SubSecondPreserved ==
    /\ (IsNumber(orig) /\ Ops = <<"timestamp_to_datetime">> /\ error = NoError) =>
           /\ raised = NoRaise
           /\ value.tzinfo = NoTz
           /\ value.microsecond = (orig.ms % 1000) * 1000 + orig.frac
    /\ (orig.kind = "datetime" /\ Ops = <<"datetime_to_timestamp", "timestamp_to_datetime">>) =>
           /\ raised = NoRaise /\ error = NoError
           /\ value.microsecond \div 1000 = orig.microsecond \div 1000

\* C9: the converter of set_datetime_tzinfo(Z) returns, with no error, the
\* datetime with the tag Z (no tag when Z is None) and the other fields of its
\* input; attaching a zone to a naive datetime and clearing it gives the
\* datetime back.
C9_SetTzinfo ==
    (orig.kind = "datetime" /\ applied # <<>>
        /\ \A i \in 1..Len(applied) : applied[i].op = "set_datetime_tzinfo") =>
        /\ raised = NoRaise /\ error = NoError
        /\ value = [orig EXCEPT !.tzinfo = applied[Len(applied)].tzinfo]
        /\ (~orig.tzinfo.set /\ applied[Len(applied)].tzinfo = NoTz) => value = orig

C9_Witness ==
    /\ orig = datetime(2012, 3, 4, 5, 6, 7, 789123, NoTz)
    /\ Len(applied) = 2
    /\ applied[1] = [op |-> "set_datetime_tzinfo", tzinfo |-> FixedTz(60)]
    /\ applied[2] = [op |-> "set_datetime_tzinfo", tzinfo |-> NoTz]
    /\ value = orig /\ error = NoError

\* C10: on every string clean_iso8601_to_date and clean_iso8601_to_datetime
\* succeed or fail together, and on success the date is the calendar day of the
\* datetime: the day of the written time minus the offset, which is the day
\* before the written one for 00:30:00+01:00 and the day after it for
\* 23:30:00-02:00.
C10_DateIsDayOfDatetime ==
    (orig.kind = "unicode" /\ Ops = <<"clean_iso8601_to_date">>) =>
        /\ raised = NoRaise
        /\ clean_iso8601_to_datetime(orig, localtz).raised = NoRaise
        /\ (error = NoError) <=> (clean_iso8601_to_datetime(orig, localtz).error = NoError)
        /\ error = NoError => value = DayOf(clean_iso8601_to_datetime(orig, localtz).value)
        /\ \A l \in OffsetLayouts :
               orig = unicode(LayoutText(l)) =>
                   LET written == DaysFromCivil(l.d.year, l.d.month, l.d.day)
                   IN  /\ error = NoError
                       /\ (l.t = <<0, 30, 0>> /\ l.off = 60)
                              => value = DayOf(CivilFromDays(written - 1))
                       /\ (l.t = <<23, 30, 0>> /\ l.off = -120)
                              => value = DayOf(CivilFromDays(written + 1))
                       /\ l.t = <<5, 6, 7>> => value = l.d

C10_Witness ==
    /\ orig = unicode(LayoutText([d |-> date(1970, 1, 1), sep |-> " ", t |-> <<0, 30, 0>>,
                                  k |-> 1, off |-> 60]))
    /\ Ops = <<"clean_iso8601_to_date">>
    /\ value = date(1969, 12, 31)
    /\ error = NoError

====
